---- MODULE Spec2Model ----
(***************************************************************************)
(* Model of the meal tracker server of src/index.js.                      *)
(*                                                                         *)
(* The record store holds two collections, users and schedules.  Every    *)
(* request handler is an async function: between two awaits the handler    *)
(* runs alone, at an await any other handler may run.  Each action below   *)
(* is one such atomic section, ending at the next await's store operation  *)
(* (or at the response).  The arrival of a request and the token check of  *)
(* authenticateUser touch no state and are folded into the handler's first *)
(* section; so is a trailing User.find() whose result is only sent back.   *)
(*                                                                         *)
(* Store semantics (mongoose): findOne returns the first matching document *)
(* in insertion order; document.save() of a loaded document writes only    *)
(* the paths whose value was changed since it was loaded ($set), and an    *)
(* array push is sent as a $push; updateMany and findOneAndUpdate match    *)
(* and update each document atomically.                                    *)
(*                                                                         *)
(* Timestamps are abstracted to NoDate / ADate; name and email of a user   *)
(* are not modelled (no handler branches on them).  A failing store call   *)
(* (the 500 answers) and a rejected token (401) are not modelled: they     *)
(* write nothing.  A send of a notification may succeed or throw.          *)
(***************************************************************************)
EXTENDS Integers, Sequences, FiniteSets, TLC

\* ---------------------------------------------------------------- bounds
\* total number of requests (and job firings) in one behaviour
MaxReqs == 3
\* number of request handlers that may be suspended at an await at once
MaxInflight == 2
\* callers 1..NumCallers issue requests
NumCallers == 2

\* ------------------------------------------------------ program constants
\* if (userCount >= 5)
MaxUsers == 5

Slots == 1..MaxInflight
Callers == 1..NumCallers
\* hours of the day, as returned by Date.getHours()
Hours == 0..23
\* device tokens a caller may post
Tokens == { "tok" }
NoToken == "none"
NoDate == "null"
ADate == "date"
\* times a caller may put into the schedule; NoTime is an absent field
NoTime == "absent"
LunchTimes == {NoTime, "12:00", "13:00"}
DinnerTimes == {NoTime, "20:00"}

VARIABLES
  users,      \* the User collection: sequence of documents, _id = index
  schedules,  \* the Schedule collection: sequence of documents
  reqs,       \* per slot: the handler suspended at an await, or idle
  started,    \* number of requests started so far
  lastResp    \* the response most recently sent

vars == <<users, schedules, reqs, started, lastResp>>

\* ------------------------------------------------------------ documents
\* userSchema defaults of a new User({ name, email, firebaseUid })
NewUser(uid) ==
  [ firebaseUid |-> uid,
    hasEaten |-> FALSE,
    lastEatenAt |-> NoDate,
    fcmToken |-> NoToken,
    mealHistory |-> <<>>,
    isAway |-> FALSE,
    awayStartDate |-> NoDate,
    awayEndDate |-> NoDate,
    missedMealsCount |-> 0 ]

\* scheduleSchema defaults of a new Schedule()
NewSchedule == [ lunchTime |-> "12:00", dinnerTime |-> "19:00" ]

Idle == [ op |-> "none", pc |-> "idle" ]

\* a response: the handler, the caller's uid, the HTTP status, the _id of the
\* document sent (or the count sent), the message, the list the handler read
\* and the sends it attempted; for toggle-away, entered tells that the caller
\* went away and twice that this call undid the caller's previous one; for
\* reset-eaten, twice tells that the response before was a first reset-eaten
\* and snap is then the list that first reset read; for put-schedule, body is
\* the lunchTime and dinnerTime of the request
NoResp == [ op |-> "none", caller |-> 0, status |-> 0, id |-> 0,
            msg |-> "", snap |-> <<>>, log |-> <<>>,
            entered |-> FALSE, twice |-> FALSE, body |-> <<>> ]

Resp(op, caller, status) ==
  [ NoResp EXCEPT !.op = op, !.caller = caller, !.status = status ]


\* ------------------------------------------------------ store operations
Min(S) == CHOOSE x \in S : \A y \in S : x <= y

\* User.findOne({ firebaseUid }): _id of the first match, 0 for null
FindOne(uid) ==
  LET hits == { i \in 1..Len(users) : users[i].firebaseUid = uid }
  IN  IF hits = {} THEN 0 ELSE Min(hits)

\* User.countDocuments()
CountDocuments == Len(users)

\* the ascending sequence of the members of a set of _ids
RECURSIVE SeqOf(_)
SeqOf(S) == IF S = {} THEN <<>> ELSE <<Min(S)>> \o SeqOf(S \ {Min(S)})

\* User.updateMany({ isAway: false }, { hasEaten: false })
UpdateManyNotAway(us) ==
  [ i \in 1..Len(us) |->
      IF us[i].isAway = FALSE THEN [ us[i] EXCEPT !.hasEaten = FALSE ] ELSE us[i] ]

FreeSlot == IF \E s \in Slots : reqs[s].pc = "idle"
            THEN Min({ s \in Slots : reqs[s].pc = "idle" }) ELSE 0

CanStart == started < MaxReqs

\* a handler that runs on to an await takes a slot
Suspend(r) == /\ FreeSlot # 0
              /\ reqs' = [ reqs EXCEPT ![FreeSlot] = r ]

Release(s) == reqs' = [ reqs EXCEPT ![s] = Idle ]

\* ------------------------------------------- POST /api/users/register
\* if (userCount >= 5) return 403
RegisterRefused(userCount) == userCount >= MaxUsers

\* const userCount = await User.countDocuments(); the cap check
RegisterCount(c) ==
  /\ CanStart
  /\ started' = started + 1
  /\ IF RegisterRefused(CountDocuments)
     THEN /\ lastResp' = Resp("register", c, 403)
          /\ UNCHANGED reqs
     ELSE /\ Suspend([ op |-> "register", pc |-> "reg_find", caller |-> c ])
          /\ UNCHANGED lastResp
  /\ UNCHANGED <<users, schedules>>

\* let user = await User.findOne({ firebaseUid }); res.json(user) if found
RegisterFind(s) ==
  /\ reqs[s].pc = "reg_find"
  /\ LET id == FindOne(reqs[s].caller)
     IN  IF id # 0
         THEN /\ lastResp' = [ Resp("register", reqs[s].caller, 200) EXCEPT !.id = id ]
              /\ Release(s)
         ELSE /\ reqs' = [ reqs EXCEPT ![s].pc = "reg_save" ]
              /\ UNCHANGED lastResp
  /\ UNCHANGED <<users, schedules, started>>

\* user = new User(...); await user.save(); res.json(user)
RegisterSave(s) ==
  /\ reqs[s].pc = "reg_save"
  /\ users' = Append(users, NewUser(reqs[s].caller))
  /\ lastResp' = [ Resp("register", reqs[s].caller, 200) EXCEPT !.id = Len(users) + 1 ]
  /\ Release(s)
  /\ UNCHANGED <<schedules, started>>

\* ------------------------------------------ POST /api/users/fcm-token
\* User.findOneAndUpdate({ firebaseUid }, { fcmToken: token }, { new: true })
FcmToken(c, token) ==
  /\ CanStart
  /\ started' = started + 1
  /\ LET id == FindOne(c)
     IN  /\ users' = IF id = 0 THEN users
                     ELSE [ users EXCEPT ![id].fcmToken = token ]
         /\ lastResp' = [ Resp("fcm-token", c, 200) EXCEPT !.id = id ]
  /\ UNCHANGED <<schedules, reqs>>

\* ---------------------------------------- POST /api/users/toggle-away
\* (mutant) hasEaten is not reset when going away
ToggleAwayAssignKeepsEaten(user) ==
  IF user.isAway = FALSE
  THEN [ user EXCEPT !.isAway = TRUE, !.awayStartDate = ADate,
                     !.awayEndDate = NoDate ]
  ELSE [ user EXCEPT !.isAway = FALSE, !.awayEndDate = ADate ]

\* the document after the handler's assignments, from the loaded copy
ToggleAwayAssign(user) ==
  IF user.isAway = FALSE
  THEN [ user EXCEPT !.isAway = TRUE, !.awayStartDate = ADate,
                     !.awayEndDate = NoDate, !.hasEaten = FALSE ]
  ELSE [ user EXCEPT !.isAway = FALSE, !.awayEndDate = ADate ]

\* user.save(): $set of the paths the handler changed in its copy
ToggleAwayWrite(stored, copy) ==
  LET new == ToggleAwayAssign(copy)
  IN  [ stored EXCEPT
          !.isAway = new.isAway,
          !.awayStartDate = IF new.isAway THEN new.awayStartDate ELSE @,
          !.awayEndDate = new.awayEndDate,
          !.hasEaten = IF new.hasEaten # copy.hasEaten THEN new.hasEaten ELSE @ ]

\* const user = await User.findOne(...); 404 if null
ToggleAwayFind(c) ==
  /\ CanStart
  /\ started' = started + 1
  /\ LET id == FindOne(c)
     IN  IF id = 0
         THEN /\ lastResp' = Resp("toggle-away", c, 404)
              /\ UNCHANGED reqs
         ELSE /\ Suspend([ op |-> "toggle-away", pc |-> "tog_save", caller |-> c,
                           id |-> id, copy |-> users[id] ])
              /\ UNCHANGED lastResp
  /\ UNCHANGED <<users, schedules>>

\* await user.save(); the user list is sent back
ToggleAwaySave(s) ==
  /\ reqs[s].pc = "tog_save"
  /\ users' = [ users EXCEPT ![reqs[s].id] = ToggleAwayWrite(@, reqs[s].copy) ]
  /\ lastResp' = [ Resp("toggle-away", reqs[s].caller, 200) EXCEPT
                     !.id = reqs[s].id,
                     !.entered = ~reqs[s].copy.isAway,
                     !.twice = /\ reqs[s].copy.isAway
                               /\ lastResp.op = "toggle-away"
                               /\ lastResp.status = 200
                               /\ lastResp.id = reqs[s].id
                               /\ lastResp.entered ]
  /\ Release(s)
  /\ UNCHANGED <<schedules, started>>

\* ------------------------------------------------------------------ Init
\* a registered user who posted a device token
WithToken(user) == [ user EXCEPT !.fcmToken = "tok" ]

\* a registered user who posted a device token and then went away
AwayUser(uid) == ToggleAwayAssign(WithToken(NewUser(uid)))

\* stores the server may hold when the behaviour starts: none registered yet,
\* callers 1 and 2 registered (with and without device tokens), and stores
\* filled up to the cap by users who are away
InitStores ==
  { <<>>,
    <<NewUser(1), NewUser(2)>>,
    <<WithToken(NewUser(1)), WithToken(NewUser(2))>>,
    <<AwayUser(3), AwayUser(4), AwayUser(5), AwayUser(6)>>,
    <<NewUser(1), AwayUser(3), AwayUser(4), AwayUser(5), AwayUser(6)>> }

Init ==
  /\ users \in InitStores
  /\ schedules = <<>>
  /\ reqs = [ s \in Slots |-> Idle ]
  /\ started = 0
  /\ lastResp = NoResp

\* ----------------------------------------- POST /api/users/mark-eaten
\* (mutant) the away check left out
MarkEatenCheckNoAway(id) ==
  IF id = 0 THEN 404 ELSE 0

\* the status the handler answers right after its findOne, 0 to go on
MarkEatenCheck(id) ==
  IF id = 0 THEN 404
  ELSE IF users[id].isAway THEN 400
  ELSE 0

\* user.save(): $set of hasEaten (when changed in the copy) and lastEatenAt
MarkEatenWrite(stored, copy) ==
  [ stored EXCEPT
      !.hasEaten = IF copy.hasEaten # TRUE THEN TRUE ELSE @,
      !.lastEatenAt = ADate ]

MarkEatenFind(c) ==
  /\ CanStart
  /\ started' = started + 1
  /\ LET id == FindOne(c)
         st == MarkEatenCheck(id)
     IN  IF st # 0
         THEN /\ lastResp' = [ Resp("mark-eaten", c, st) EXCEPT !.id = id ]
              /\ UNCHANGED reqs
         ELSE /\ Suspend([ op |-> "mark-eaten", pc |-> "me_save", caller |-> c,
                           id |-> id, copy |-> users[id] ])
              /\ UNCHANGED lastResp
  /\ UNCHANGED <<users, schedules>>

MarkEatenSave(s) ==
  /\ reqs[s].pc = "me_save"
  /\ users' = [ users EXCEPT ![reqs[s].id] = MarkEatenWrite(@, reqs[s].copy) ]
  /\ lastResp' = [ Resp("mark-eaten", reqs[s].caller, 200) EXCEPT !.id = reqs[s].id ]
  /\ Release(s)
  /\ UNCHANGED <<schedules, started>>

\* ------------------------------------------------- GET /api/schedule
\* Schedule.findOne(): _id of the first document, 0 for null
FindSchedule == IF Len(schedules) = 0 THEN 0 ELSE 1

\* let schedule = await Schedule.findOne(); answered at once when found
GetScheduleFind ==
  /\ CanStart
  /\ started' = started + 1
  /\ IF FindSchedule # 0
     THEN /\ lastResp' = [ Resp("get-schedule", 0, 200) EXCEPT
                             !.id = FindSchedule, !.snap = <<schedules[FindSchedule]>> ]
          /\ UNCHANGED reqs
     ELSE /\ Suspend([ op |-> "get-schedule", pc |-> "gs_save" ])
          /\ UNCHANGED lastResp
  /\ UNCHANGED <<users, schedules>>

\* schedule = new Schedule(); await schedule.save()
GetScheduleSave(s) ==
  /\ reqs[s].pc = "gs_save"
  /\ schedules' = Append(schedules, NewSchedule)
  /\ lastResp' = [ Resp("get-schedule", 0, 200) EXCEPT
                     !.id = Len(schedules) + 1, !.snap = <<NewSchedule>> ]
  /\ Release(s)
  /\ UNCHANGED <<users, started>>

\* ------------------------------------------------- PUT /api/schedule
\* (mutant) a full update: a field the request leaves out is set to its default
PutScheduleAssignFull(sch, lunch, dinner) ==
  [ sch EXCEPT !.lunchTime = IF lunch # NoTime THEN lunch ELSE "12:00",
               !.dinnerTime = IF dinner # NoTime THEN dinner ELSE "19:00" ]

\* if (lunchTime) schedule.lunchTime = lunchTime; the same for dinnerTime
PutScheduleAssign(sch, lunch, dinner) ==
  [ sch EXCEPT !.lunchTime = IF lunch # NoTime THEN lunch ELSE @,
               !.dinnerTime = IF dinner # NoTime THEN dinner ELSE @ ]

\* schedule.save() of a loaded document: $set of the changed paths
PutScheduleWrite(stored, copy, lunch, dinner) ==
  LET new == PutScheduleAssign(copy, lunch, dinner)
  IN  [ stored EXCEPT
          !.lunchTime = IF new.lunchTime # copy.lunchTime THEN new.lunchTime ELSE @,
          !.dinnerTime = IF new.dinnerTime # copy.dinnerTime THEN new.dinnerTime ELSE @ ]

\* let schedule = await Schedule.findOne(); if (!schedule) new Schedule()
PutScheduleFind(lunch, dinner) ==
  /\ CanStart
  /\ started' = started + 1
  /\ Suspend([ op |-> "put-schedule", pc |-> "ps_save",
               id |-> FindSchedule,
               copy |-> IF FindSchedule = 0 THEN NewSchedule
                        ELSE schedules[FindSchedule],
               lunch |-> lunch, dinner |-> dinner ])
  /\ UNCHANGED <<users, schedules, lastResp>>

\* await schedule.save(): an insert of the new document, or an update
PutScheduleSave(s) ==
  /\ reqs[s].pc = "ps_save"
  /\ LET r == reqs[s]
         new == PutScheduleAssign(r.copy, r.lunch, r.dinner)
     IN  /\ schedules' =
              IF r.id = 0 THEN Append(schedules, new)
              ELSE [ schedules EXCEPT
                       ![r.id] = PutScheduleWrite(@, r.copy, r.lunch, r.dinner) ]
         /\ lastResp' = [ Resp("put-schedule", 0, 200) EXCEPT
                            !.id = IF r.id = 0 THEN Len(schedules) + 1 ELSE r.id,
                            !.snap = <<new>>,
                            !.body = <<r.lunch, r.dinner>> ]
  /\ Release(s)
  /\ UNCHANGED <<users, started>>

\* --------------------------------------- POST /api/users/reset-eaten
\* (mutant) the lunch window opens after 7 o'clock
getCurrentMealTypeAfterSeven(hours) ==
  IF hours > 7 /\ hours < 17 THEN "Lunch" ELSE "Dinner"

\* hours >= 7 && hours < 17 ? 'Lunch' : 'Dinner'
getCurrentMealType(hours) ==
  IF hours >= 7 /\ hours < 17 THEN "Lunch" ELSE "Dinner"

\* the record pushed for a missed meal
MissedRecord(hours) ==
  [ date |-> ADate, mealType |-> getCurrentMealType(hours),
    eaten |-> FALSE, status |-> "missed" ]

\* User.find({ isAway: false, hasEaten: false }): the _ids, in store order
FindPending ==
  SeqOf({ i \in 1..Len(users) :
            users[i].isAway = FALSE /\ users[i].hasEaten = FALSE })

\* (mutant) a user who already has a missed record is not counted again
ResetEatenWriteGuarded(stored, copyCount, hours) ==
  IF stored.mealHistory # <<>> THEN stored
  ELSE [ stored EXCEPT
           !.missedMealsCount = copyCount + 1,
           !.mealHistory = Append(@, MissedRecord(hours)) ]

\* user.missedMealsCount = (user.missedMealsCount || 0) + 1; mealHistory.push;
\* user.save(): $set of the count computed from the copy, $push of the record
ResetEatenWrite(stored, copyCount, hours) ==
  [ stored EXCEPT
      !.missedMealsCount = copyCount + 1,
      !.mealHistory = Append(@, MissedRecord(hours)) ]

\* const users = await User.find({ isAway: false, hasEaten: false });
\* snap is what is left of the list, seen the list as it was read
ResetEatenFind ==
  /\ CanStart
  /\ started' = started + 1
  /\ LET ids == FindPending
         list == [ k \in 1..Len(ids) |->
                    [ id |-> ids[k],
                      missedMealsCount |-> users[ids[k]].missedMealsCount,
                      records |-> Len(users[ids[k]].mealHistory) ] ]
     IN  Suspend([ op |-> "reset-eaten",
                   pc |-> IF ids = <<>> THEN "re_update" ELSE "re_save",
                   snap |-> list, seen |-> list ])
  /\ UNCHANGED <<users, schedules, lastResp>>

\* one turn of the loop: await user.save()
ResetEatenSave(s, hours) ==
  /\ reqs[s].pc = "re_save"
  /\ LET u == Head(reqs[s].snap)
         rest == Tail(reqs[s].snap)
     IN  /\ users' = [ users EXCEPT
                         ![u.id] = ResetEatenWrite(@, u.missedMealsCount, hours) ]
         /\ reqs' = [ reqs EXCEPT ![s].snap = rest,
                                  ![s].pc = IF rest = <<>> THEN "re_update" ELSE "re_save" ]
  /\ UNCHANGED <<schedules, started, lastResp>>

\* await User.updateMany({ isAway: false }, { hasEaten: false }); the list is sent
ResetEatenUpdateMany(s) ==
  /\ reqs[s].pc = "re_update"
  /\ users' = UpdateManyNotAway(users)
  /\ LET again == lastResp.op = "reset-eaten" /\ ~lastResp.twice
     IN  lastResp' = [ Resp("reset-eaten", 0, 200) EXCEPT
                         !.twice = again,
                         !.snap = IF again THEN lastResp.snap ELSE reqs[s].seen ]
  /\ Release(s)
  /\ UNCHANGED <<schedules, started>>

\* ------------------------------------------------ the midnight job
\* schedule.scheduleJob('0 0 * * *', resetEatenStatus)
resetEatenStatus ==
  /\ CanStart
  /\ started' = started + 1
  /\ users' = UpdateManyNotAway(users)
  /\ UNCHANGED <<schedules, reqs, lastResp>>

\* --------------------------------- POST /api/report-food-finished
\* (mutant) an unknown reporter is answered like an away one
ReportCheckUnknownAsAway(id) ==
  IF id = 0 THEN 400
  ELSE IF users[id].isAway THEN 400
  ELSE 0

\* the status answered right after the reporter's findOne, 0 to go on
ReportCheck(id) ==
  IF id = 0 THEN 404
  ELSE IF users[id].isAway THEN 400
  ELSE 0

\* (mutant) away users are counted among the remaining ones
RemainingUsersWithAway(list) ==
  SeqOf({ i \in 1..Len(list) : ~list[i].hasEaten })

\* users.filter(user => !user.hasEaten && !user.isAway)
RemainingUsers(list) ==
  SeqOf({ i \in 1..Len(list) : ~list[i].hasEaten /\ ~list[i].isAway })

\* users.filter(user => user.hasEaten)
UsersWhoAte(list) ==
  SeqOf({ i \in 1..Len(list) : list[i].hasEaten })

\* (mutant) the away test of the send loops left out
GetsMessageIfToken(user) == user.fcmToken # NoToken

\* if (user.fcmToken && !user.isAway)
GetsMessage(user) == user.fcmToken # NoToken /\ ~user.isAway

RECURSIVE SelectIds(_, _)
SelectIds(ids, list) ==
  IF ids = <<>> THEN <<>>
  ELSE (IF GetsMessage(list[Head(ids)]) THEN <<Head(ids)>> ELSE <<>>)
       \o SelectIds(Tail(ids), list)

\* the sends of the two loops, in order: who is sent which message, and the
\* users its body names (usersWhoAte in the first loop, remainingUsers in the
\* second)
SendQueue(list) ==
  LET first == SelectIds(RemainingUsers(list), list)
      second == SelectIds(UsersWhoAte(list), list)
  IN  [ k \in 1..Len(first) |->
          [ id |-> first[k], title |-> "Food Finished!",
            names |-> UsersWhoAte(list) ] ]
      \o [ k \in 1..Len(second) |->
             [ id |-> second[k], title |-> "Food Status",
               names |-> RemainingUsers(list) ] ]

\* (mutant) a send that throws is not caught inside the loop
SendCaughtNever(ok) == FALSE

\* try { await admin.messaging().send(...) } catch (error) { console.error }:
\* whether an error of the send stays inside the loop
SendCaught(ok) == TRUE

ReportSuccess(c, list, log) ==
  [ Resp("report-food-finished", c, 200) EXCEPT
      !.msg = "Notifications sent successfully",
      !.id = Len(RemainingUsers(list)),
      !.snap = list, !.log = log ]

\* const reportingUser = await User.findOne(...)
ReportFind(c) ==
  /\ CanStart
  /\ started' = started + 1
  /\ LET id == FindOne(c)
         st == ReportCheck(id)
     IN  IF st # 0
         THEN /\ lastResp' = Resp("report-food-finished", c, st)
              /\ UNCHANGED reqs
         ELSE /\ Suspend([ op |-> "report-food-finished", pc |-> "rf_list",
                           caller |-> c ])
              /\ UNCHANGED lastResp
  /\ UNCHANGED <<users, schedules>>

\* const users = await User.find(); the partition; the run up to the first send
ReportList(s) ==
  /\ reqs[s].pc = "rf_list"
  /\ LET list == [ i \in 1..Len(users) |->
                     [ hasEaten |-> users[i].hasEaten, isAway |-> users[i].isAway,
                       fcmToken |-> users[i].fcmToken ] ]
         c == reqs[s].caller
     IN  IF Len(RemainingUsers(list)) = 0
         THEN /\ lastResp' = [ Resp("report-food-finished", c, 200) EXCEPT
                                 !.msg = "No active users left to eat!",
                                 !.snap = list ]
              /\ Release(s)
         ELSE IF SendQueue(list) = <<>>
         THEN /\ lastResp' = ReportSuccess(c, list, <<>>)
              /\ Release(s)
         ELSE /\ reqs' = [ reqs EXCEPT ![s] =
                             [ op |-> "report-food-finished", pc |-> "rf_send",
                               caller |-> c, snap |-> list,
                               queue |-> SendQueue(list), log |-> <<>> ] ]
              /\ UNCHANGED lastResp
  /\ UNCHANGED <<users, schedules, started>>

\* one await admin.messaging().send(...), which succeeds or throws
ReportSend(s, ok) ==
  /\ reqs[s].pc = "rf_send"
  /\ LET r == reqs[s]
         log == Append(r.log, [ id |-> Head(r.queue).id,
                                title |-> Head(r.queue).title,
                                names |-> Head(r.queue).names, ok |-> ok ])
         rest == Tail(r.queue)
     IN  IF ~ok /\ ~SendCaught(ok)
         THEN /\ lastResp' = [ Resp("report-food-finished", r.caller, 500) EXCEPT
                                 !.snap = r.snap, !.log = log ]
              /\ Release(s)
         ELSE IF rest = <<>>
         THEN /\ lastResp' = ReportSuccess(r.caller, r.snap, log)
              /\ Release(s)
         ELSE /\ reqs' = [ reqs EXCEPT ![s].queue = rest, ![s].log = log ]
              /\ UNCHANGED lastResp
  /\ UNCHANGED <<users, schedules, started>>

Next ==
  \/ \E c \in Callers : RegisterCount(c)
  \/ \E s \in Slots : RegisterFind(s)
  \/ \E s \in Slots : RegisterSave(s)
  \/ \E c \in Callers, t \in Tokens : FcmToken(c, t)
  \/ \E c \in Callers : ToggleAwayFind(c)
  \/ \E s \in Slots : ToggleAwaySave(s)
  \/ \E c \in Callers : MarkEatenFind(c)
  \/ \E s \in Slots : MarkEatenSave(s)
  \/ GetScheduleFind
  \/ \E s \in Slots : GetScheduleSave(s)
  \/ \E l \in LunchTimes, d \in DinnerTimes : PutScheduleFind(l, d)
  \/ \E s \in Slots : PutScheduleSave(s)
  \/ ResetEatenFind
  \/ \E s \in Slots, h \in Hours : ResetEatenSave(s, h)
  \/ \E s \in Slots : ResetEatenUpdateMany(s)
  \/ resetEatenStatus
  \/ \E c \in Callers : ReportFind(c)
  \/ \E s \in Slots : ReportList(s)
  \/ \E s \in Slots, ok \in BOOLEAN : ReportSend(s, ok)

Spec == Init /\ [][Next]_vars

\* requests served one after the other: a request starts (and the job fires)
\* only when no handler is suspended
AllIdle == \A s \in Slots : reqs[s].pc = "idle"

SeqNext ==
  \/ AllIdle /\ \E c \in Callers : RegisterCount(c)
  \/ \E s \in Slots : RegisterFind(s)
  \/ \E s \in Slots : RegisterSave(s)
  \/ AllIdle /\ \E c \in Callers, t \in Tokens : FcmToken(c, t)
  \/ AllIdle /\ \E c \in Callers : ToggleAwayFind(c)
  \/ \E s \in Slots : ToggleAwaySave(s)
  \/ AllIdle /\ \E c \in Callers : MarkEatenFind(c)
  \/ \E s \in Slots : MarkEatenSave(s)
  \/ AllIdle /\ GetScheduleFind
  \/ \E s \in Slots : GetScheduleSave(s)
  \/ AllIdle /\ \E l \in LunchTimes, d \in DinnerTimes : PutScheduleFind(l, d)
  \/ \E s \in Slots : PutScheduleSave(s)
  \/ AllIdle /\ ResetEatenFind
  \/ \E s \in Slots, h \in Hours : ResetEatenSave(s, h)
  \/ \E s \in Slots : ResetEatenUpdateMany(s)
  \/ AllIdle /\ resetEatenStatus
  \/ AllIdle /\ \E c \in Callers : ReportFind(c)
  \/ \E s \in Slots : ReportList(s)
  \/ \E s \in Slots, ok \in BOOLEAN : ReportSend(s, ok)

SpecSeq == Init /\ [][SeqNext]_vars

\* ================================================================ claims
Ids == 1..Len(users)

\* a step of a reset: the midnight job, or a write of POST /api/users/reset-eaten
ResetStep ==
  \/ resetEatenStatus
  \/ \E s \in Slots : ResetEatenUpdateMany(s)
  \/ \E s \in Slots, h \in Hours : ResetEatenSave(s, h)

\* C1: the midnight job raises missedMealsCount by exactly 1 and appends exactly
\* one missed MealRecord for every non-away user with hasEaten = false.
C1_MidnightCountsMissed ==
  [][ resetEatenStatus =>
        \A i \in Ids :
          (~users[i].isAway /\ ~users[i].hasEaten) =>
            /\ users'[i].missedMealsCount = users[i].missedMealsCount + 1
            /\ Len(users'[i].mealHistory) = Len(users[i].mealHistory) + 1
            /\ users'[i].mealHistory[Len(users'[i].mealHistory)].status = "missed"
            /\ users'[i].mealHistory[Len(users'[i].mealHistory)].eaten = FALSE ]_vars

\* C2: no step of a reset changes hasEaten, missedMealsCount or mealHistory of
\* a user whose stored isAway is true when the step writes.
C2_ResetSkipsAway ==
  [][ ResetStep =>
        \A i \in Ids :
          users[i].isAway =>
            /\ users'[i].hasEaten = users[i].hasEaten
            /\ users'[i].missedMealsCount = users[i].missedMealsCount
            /\ users'[i].mealHistory = users[i].mealHistory ]_vars

\* C3: no stored user is away and has eaten at the same time.
C3_NoAwayEaten ==
  \A i \in Ids : ~(users[i].isAway /\ users[i].hasEaten)

\* C4: mark-eaten by a caller who is away answers 400 and changes no user
\* record (and leaves no write pending).
C4_MarkEatenAwayRejected ==
  [][ \A c \in Callers :
        (MarkEatenFind(c) /\ FindOne(c) # 0 /\ users[FindOne(c)].isAway) =>
          /\ lastResp'.op = "mark-eaten"
          /\ lastResp'.caller = c
          /\ lastResp'.status = 400
          /\ users' = users
          /\ reqs' = reqs ]_vars

\* C4 witness: an away caller was answered 400 while another user is stored
C4_Witness ==
  /\ lastResp.op = "mark-eaten"
  /\ lastResp.status = 400
  /\ users[lastResp.id].isAway
  /\ Len(users) > 1

\* C5: a register response to a caller whose record exists is that record
\* (status 200, the existing document), and no second record was created.
C5_RegisterIdempotent ==
  (lastResp.op = "register" /\ FindOne(lastResp.caller) # 0) =>
    (lastResp.status = 200 /\ lastResp.id = FindOne(lastResp.caller))

\* C6: at most one Schedule document exists.
C6_AtMostOneSchedule == Len(schedules) <= 1

\* C7: a toggle-away call flips isAway; going away sets awayStartDate, clears
\* awayEndDate and sets hasEaten = false; coming back sets awayEndDate; and a
\* call that follows the caller's going away ends present, with awayEndDate
\* set and hasEaten = false.  (Calls served one after the other.)
C7_ToggleAwayFlips ==
  [][ \A s \in Slots :
        ToggleAwaySave(s) =>
          LET old == users[reqs[s].id]
              new == users'[reqs[s].id]
          IN  /\ new.isAway = ~old.isAway
              /\ new.isAway =>
                    /\ new.awayStartDate # NoDate
                    /\ new.awayEndDate = NoDate
                    /\ new.hasEaten = FALSE
              /\ ~new.isAway => new.awayEndDate # NoDate
              /\ lastResp'.twice =>
                    /\ new.isAway = FALSE
                    /\ new.awayEndDate # NoDate
                    /\ new.hasEaten = FALSE ]_vars

\* C7 witness: a user who had eaten went away and came back
C7_Witness ==
  /\ lastResp.op = "toggle-away"
  /\ lastResp.twice
  /\ users[lastResp.id].lastEatenAt # NoDate
  /\ started = 3

\* the list a report read has somebody left to eat
HasRemaining(list) ==
  \E i \in 1..Len(list) : ~list[i].hasEaten /\ ~list[i].isAway

\* the number of sends to user i in a log
Attempts(log, i) == Cardinality({ k \in 1..Len(log) : log[k].id = i })

\* C8: a report that read a list with somebody left to eat answers with the
\* success summary, and by then every non-away user of the list holding a
\* token got exactly one send, whether or not sends failed.
C8_EveryRecipientTriedOnce ==
  (lastResp.op = "report-food-finished" /\ HasRemaining(lastResp.snap)) =>
    /\ lastResp.status = 200
    /\ lastResp.msg = "Notifications sent successfully"
    /\ \A i \in 1..Len(lastResp.snap) :
          Attempts(lastResp.log, i) =
            IF ~lastResp.snap[i].isAway /\ lastResp.snap[i].fcmToken # NoToken
            THEN 1 ELSE 0

\* C8 witness: a failed send was followed by a send to another recipient
C8_Witness ==
  /\ lastResp.op = "report-food-finished"
  /\ lastResp.status = 200
  /\ \E k \in 1..Len(lastResp.log) :
        /\ ~lastResp.log[k].ok
        /\ k < Len(lastResp.log)

\* C9: a report that read a list with nobody left to eat sends nothing and
\* answers "No active users left to eat!".
C9_NothingLeftNothingSent ==
  /\ (lastResp.op = "report-food-finished" /\ lastResp.snap # <<>>
        /\ ~HasRemaining(lastResp.snap)) =>
       /\ lastResp.status = 200
       /\ lastResp.msg = "No active users left to eat!"
       /\ lastResp.log = <<>>
  /\ \A s \in Slots : reqs[s].pc = "rf_send" => HasRemaining(reqs[s].snap)

\* C9 witness: the "done" answer over a list with one who ate and some away
C9_Witness ==
  /\ lastResp.op = "report-food-finished"
  /\ lastResp.msg = "No active users left to eat!"
  /\ \E i \in 1..Len(lastResp.snap) : lastResp.snap[i].hasEaten
  /\ \E i \in 1..Len(lastResp.snap) : lastResp.snap[i].isAway

\* C10: every user a report sends or is about to send a message to is not
\* away in the list that report read.
C10_NoSendToAway ==
  /\ \A s \in Slots :
        reqs[s].pc = "rf_send" =>
          /\ \A k \in 1..Len(reqs[s].log) : ~reqs[s].snap[reqs[s].log[k].id].isAway
          /\ \A k \in 1..Len(reqs[s].queue) : ~reqs[s].snap[reqs[s].queue[k].id].isAway
  /\ lastResp.op = "report-food-finished" =>
        \A k \in 1..Len(lastResp.log) : ~lastResp.snap[lastResp.log[k].id].isAway

\* C10 witness: a report sent a message while an away user of its list held a token
C10_Witness ==
  /\ lastResp.op = "report-food-finished"
  /\ lastResp.log # <<>>
  /\ \E i \in 1..Len(lastResp.snap) :
        lastResp.snap[i].isAway /\ lastResp.snap[i].fcmToken # NoToken

\* C11: no step lowers the stored missedMealsCount of any user.
C11_MissedNeverDecreases ==
  [][ \A i \in Ids :
        users'[i].missedMealsCount >= users[i].missedMealsCount ]_vars

\* the last n records of a history are missed meals
LastMissed(h, n) ==
  /\ Len(h) >= n
  /\ \A k \in (Len(h) - n + 1)..Len(h) : h[k].status = "missed" /\ h[k].eaten = FALSE

\* C12: POST /api/users/reset-eaten leaves hasEaten = false for every user it
\* read as pending, and a second run right after a first one has raised the
\* missedMealsCount of each user the first run read by 2 and appended two
\* missed records.  (Calls served one after the other.)
C12_ResetTwiceCountsTwice ==
  [][ \A s \in Slots :
        ResetEatenUpdateMany(s) =>
          /\ \A k \in 1..Len(reqs[s].seen) :
                users'[reqs[s].seen[k].id].hasEaten = FALSE
          /\ lastResp'.twice =>
                \A k \in 1..Len(lastResp'.snap) :
                  LET e == lastResp'.snap[k]
                      u == users'[e.id]
                  IN  /\ u.missedMealsCount = e.missedMealsCount + 2
                      /\ Len(u.mealHistory) = e.records + 2
                      /\ LastMissed(u.mealHistory, 2)
                      /\ u.hasEaten = FALSE ]_vars

\* C12 witness: two runs in a row over a list with a pending user
C12_Witness ==
  /\ lastResp.op = "reset-eaten"
  /\ lastResp.twice
  /\ lastResp.snap # <<>>
  /\ users[lastResp.snap[1].id].missedMealsCount = 2

\* C13: markEaten, toggleAway and reportFoodFinished called by a caller without
\* a user record answer 404, change no stored record, and neither send nor
\* queue any notification.
C13_UnknownCallerNotFound ==
  [][ \A c \in Callers :
        (FindOne(c) = 0 /\ (MarkEatenFind(c) \/ ToggleAwayFind(c) \/ ReportFind(c)))
          => /\ lastResp'.caller = c
             /\ lastResp'.status = 404
             /\ lastResp'.log = <<>>
             /\ users' = users
             /\ schedules' = schedules
             /\ reqs' = reqs ]_vars

\* C13 witness: an unknown reporter was refused while a present user with a
\* token was stored
C13_Witness ==
  /\ lastResp.op = "report-food-finished"
  /\ lastResp.status = 404
  /\ FindOne(lastResp.caller) = 0
  /\ \E i \in Ids : ~users[i].isAway /\ users[i].fcmToken # NoToken

\* C14: POST /api/users/fcm-token by a caller without a user record is
\* answered 404.
C14_FcmTokenUnknown404 ==
  (lastResp.op = "fcm-token" /\ lastResp.id = 0) => lastResp.status = 404

\* C15: the meal type written by a reset at hour h is Lunch exactly when h is
\* one of 7..16 and Dinner otherwise, whatever Schedule is stored.
C15_MealTypeByHour ==
  [][ \A s \in Slots, h \in Hours :
        ResetEatenSave(s, h) =>
          LET hist == users'[Head(reqs[s].snap).id].mealHistory
          IN  /\ hist # <<>>
              /\ hist[Len(hist)].mealType = (IF h \in 7..16 THEN "Lunch" ELSE "Dinner") ]_vars

\* C15 witness: a record was written while the stored Schedule had other times
C15_Witness ==
  /\ schedules # <<>>
  /\ schedules[1].lunchTime = "13:00"
  /\ schedules[1].dinnerTime = "20:00"
  /\ \E i \in Ids : /\ users[i].mealHistory # <<>>
                     /\ users[i].mealHistory[1].mealType = "Lunch"

\* C16: the user collection never holds more than MaxUsers documents.
C16_AtMostMaxUsers ==
  Len(users) <= MaxUsers

\* C17: no two stored users have the same firebaseUid.
C17_OneUserPerUid ==
  \A i, j \in Ids : users[i].firebaseUid = users[j].firebaseUid => i = j

\* the number of missed records of a history
RECURSIVE MissedIn(_)
MissedIn(h) ==
  IF h = <<>> THEN 0
  ELSE (IF Head(h).status = "missed" THEN 1 ELSE 0) + MissedIn(Tail(h))

\* C19: every user's missedMealsCount is the number of missed records in its
\* mealHistory, and the history holds no other kind of record.
C19_CountMatchesHistory ==
  \A i \in Ids :
    /\ users[i].missedMealsCount = MissedIn(users[i].mealHistory)
    /\ \A k \in 1..Len(users[i].mealHistory) :
          users[i].mealHistory[k].status = "missed"

NamesOnly(e, list, eaten) ==
  \A k \in 1..Len(e.names) :
    /\ list[e.names[k]].isAway = FALSE
    /\ list[e.names[k]].hasEaten = eaten

\* C18: in every report, the users named in a "Food Finished!" message (ate)
\* are present users who have eaten, and the users named in a "Food Status"
\* message (remaining) are present users who have not.
C18_PartitionOnlyPresent ==
  lastResp.op = "report-food-finished" =>
    \A n \in 1..Len(lastResp.log) :
      LET e == lastResp.log[n]
      IN  /\ e.title = "Food Finished!" => NamesOnly(e, lastResp.snap, TRUE)
          /\ e.title = "Food Status" => NamesOnly(e, lastResp.snap, FALSE)
====
